---- MODULE Spec2Model ----
(***************************************************************************)
(* Model of langchain_opensearch_vector_indexer.py: the ingestion main     *)
(* loop (main), the splitter (recursive_split, parse_txt_file) and the     *)
(* batcher (chunked).                                                      *)
(*                                                                         *)
(* Spec       the ingestion run of main()                                  *)
(* SpecSplit  recursive_split applied to bounded inputs                    *)
(* SpecChunk  chunked applied to bounded inputs                            *)
(* SpecRec    recursive_split run call by call, with its call stack        *)
(***************************************************************************)
EXTENDS Integers, Sequences, FiniteSets, TLC

VARIABLES
    pc,                \* position of main() / of the function under test
    walk,              \* what os.walk(download_folder_path) yields, in order
    bedrock_client,    \* main: bedrock_client
    auth,              \* main: auth
    successful_files,  \* main: successful_files
    failed_files,      \* main: failed_files, entries <<full_path, str(e)>>
    dirIdx,            \* position of the outer for loop (1-based, 0 = not started)
    fileIdx,           \* position of the inner for loop (1-based, 0 = not started)
    loaded,            \* what the loader and the splitter gave for the file last parsed
    i,                 \* main: i, the index enumerate() gives the current batch
    parse_log,         \* history: the calls of parse_txt_file
    sink_log,          \* history: the calls of create_opensearch_vector_index
    caught_error,      \* history: the exception last caught (and printed) inside a helper
    arg_docs,          \* SpecSplit / SpecChunk: the list argument
    arg_n,             \* SpecSplit / SpecChunk: max_tokens, resp. n
    ret,               \* SpecSplit / SpecChunk / SpecRec: the returned value
    stack              \* SpecRec: the frames of recursive_split, the innermost last

vars == <<pc, walk, bedrock_client, auth, successful_files, failed_files,
          dirIdx, fileIdx, loaded, i, parse_log, sink_log, caught_error,
          arg_docs, arg_n, ret, stack>>

mainVars == <<walk, bedrock_client, auth, successful_files, failed_files,
              dirIdx, fileIdx, loaded, i, parse_log, sink_log, caught_error>>

----------------------------------------------------------------------------
(* Bounds *)

MaxDirs == 2        \* directories the walk yields
MaxTotalFiles == 3  \* files the walk yields, over all directories
NumChunks == 249    \* windows of the multi-batch file
LongLen == 7501     \* length of the over-long window of the multi-batch file
MaxDocs == 2        \* SpecSplit: documents in the input list
MaxLen == 4         \* SpecSplit: characters per document
MaxTokens == 3      \* SpecSplit: largest max_tokens tried
MaxK == 5           \* SpecChunk: longest sequence
MaxN == 3           \* SpecChunk: largest n tried
MaxDepth == 8       \* SpecRec: frames the call stack may hold

(* Program constants *)

DefaultMaxTokens == 7500   \* recursive_split(docs, max_tokens=7500)
BatchSize == 100           \* chunked(parsed_docs, 100)

----------------------------------------------------------------------------
(* Helpers *)

Min(a, b) == IF a < b THEN a ELSE b

\* Python slice s[a:b] for 0 <= a <= b (0-based, end exclusive, clamped to len(s))
Slice(s, a, b) == SubSeq(s, a + 1, Min(b, Len(s)))

\* Python slice s[a:]
SliceFrom(s, a) == SubSeq(s, a + 1, Len(s))

\* Document(page_content=c, metadata=m)
Document(c, m) == [page_content |-> c, metadata |-> m]

RECURSIVE range(_, _, _)
\* range(start, stop, step) for step >= 1, as the sequence of its values
range(start, stop, step) ==
    IF start >= stop THEN <<>>
    ELSE <<start>> \o range(start + step, stop, step)

----------------------------------------------------------------------------
(* Splitter *)

RECURSIVE extend_all(_, _, _)
\* result after the pieces lo..hi were added to an empty result, in order
\* (result.extend / result.append, one piece per turn of the for loop)
extend_all(pieces, lo, hi) ==
    IF lo > hi THEN <<>>
    ELSE IF lo = hi THEN pieces[lo]
    ELSE LET m == (lo + hi) \div 2
         IN  extend_all(pieces, lo, m) \o extend_all(pieces, m + 1, hi)

RECURSIVE recursive_split_once(_, _)
\* recursive_split without the recursion: the two halves are kept as they are
recursive_split_once(docs, max_tokens) ==
    LET piece(doc) ==
            LET mid == Len(doc.page_content) \div 2
                left == Document(Slice(doc.page_content, 0, mid), doc.metadata)
                right == Document(SliceFrom(doc.page_content, mid), doc.metadata)
            IN  IF Len(doc.page_content) > max_tokens
                THEN <<left, right>>
                ELSE <<doc>>
    IN  extend_all([k \in 1..Len(docs) |-> piece(docs[k])], 1, Len(docs))

RECURSIVE recursive_split_lossy(_, _)
\* recursive_split with the right half taken from mid + 1
recursive_split_lossy(docs, max_tokens) ==
    LET piece(doc) ==
            LET mid == Len(doc.page_content) \div 2
                left == Document(Slice(doc.page_content, 0, mid), doc.metadata)
                right == Document(SliceFrom(doc.page_content, mid + 1), doc.metadata)
            IN  IF Len(doc.page_content) > max_tokens
                THEN recursive_split_lossy(<<left, right>>, max_tokens)
                ELSE <<doc>>
    IN  extend_all([k \in 1..Len(docs) |-> piece(docs[k])], 1, Len(docs))

RECURSIVE recursive_split_round_up(_, _)
\* recursive_split with mid rounded up
recursive_split_round_up(docs, max_tokens) ==
    LET piece(doc) ==
            LET mid == (Len(doc.page_content) + 1) \div 2
                left == Document(Slice(doc.page_content, 0, mid), doc.metadata)
                right == Document(SliceFrom(doc.page_content, mid), doc.metadata)
            IN  IF Len(doc.page_content) > max_tokens
                THEN recursive_split_round_up(<<left, right>>, max_tokens)
                ELSE <<doc>>
    IN  extend_all([k \in 1..Len(docs) |-> piece(docs[k])], 1, Len(docs))

RECURSIVE recursive_split(_, _)
recursive_split(docs, max_tokens) ==
    LET piece(doc) ==
            LET mid == Len(doc.page_content) \div 2
                left == Document(Slice(doc.page_content, 0, mid), doc.metadata)
                right == Document(SliceFrom(doc.page_content, mid), doc.metadata)
            IN  IF Len(doc.page_content) > max_tokens
                THEN recursive_split(<<left, right>>, max_tokens)
                ELSE <<doc>>
    IN  extend_all([k \in 1..Len(docs) |-> piece(docs[k])], 1, Len(docs))

\* What TextLoader(file_path).load() followed by
\* CharacterTextSplitter.split_documents gives: either an exception, or a list
\* of windows carrying the file's metadata.
Errors == {"E1"}

Text(n) == [k \in 1..n |-> "x"]

ManyChunks(file_path) ==
    [k \in 1..NumChunks |->
        Document(IF k = 1 THEN Text(LongLen) ELSE Text(1), file_path)]

Windows == {"empty", "many"}

LoaderOutcomes(file_path) ==
    [path : {file_path}, raised : {TRUE}, error : Errors, windows : {"none"}]
    \cup [path : {file_path}, raised : {FALSE}, error : {"none"}, windows : Windows]

chunks(outcome) ==
    IF outcome.windows = "many" THEN ManyChunks(outcome.path) ELSE <<>>

\* parse_txt_file returning the windows without the fine split
parse_txt_file_unsplit(outcome) ==
    IF outcome.raised THEN <<>>
    ELSE chunks(outcome)

\* parse_txt_file(file_path), given what the loader and the splitter do
parse_txt_file(outcome) ==
    IF outcome.raised THEN <<>>
    ELSE recursive_split(chunks(outcome), DefaultMaxTokens)

----------------------------------------------------------------------------
(* Batcher *)

\* chunked with the slice ending one element early
chunked_short(iterable, n) ==
    LET starts == range(0, Len(iterable), n)
    IN  [k \in 1..Len(starts) |-> Slice(iterable, starts[k], starts[k] + n - 1)]

\* chunked with the range stopping one short
chunked_stops_early(iterable, n) ==
    LET starts == range(0, Len(iterable) - 1, n)
    IN  [k \in 1..Len(starts) |-> Slice(iterable, starts[k], starts[k] + n)]

chunked(iterable, n) ==
    LET starts == range(0, Len(iterable), n)
    IN  [k \in 1..Len(starts) |-> Slice(iterable, starts[k], starts[k] + n)]

----------------------------------------------------------------------------
(* The walk *)

Exts == {".txt", ".md"}

endswith_txt(file) == file.ext = ".txt"

DirFiles(exts) == [k \in 1..Len(exts) |-> [stem |-> k, ext |-> exts[k]]]

ExtLists == UNION {[1..n -> Exts] : n \in 0..MaxTotalFiles}

\* the ways to cut k files into n directories: c[d] files lie in directories 1..d
Cuts(n, k) ==
    { c \in [1..n -> 0..k] :
        /\ \A d \in 1..(n - 1) : c[d] <= c[d + 1]
        /\ IF n = 0 THEN k = 0 ELSE c[n] = k }

\* every walk of at most MaxDirs directories holding at most MaxTotalFiles files
Walks ==
    UNION { UNION { { [d \in 1..n |->
                        [root |-> d,
                         files |-> DirFiles(Slice(e, IF d = 1 THEN 0 ELSE c[d - 1], c[d]))]] :
                      c \in Cuts(n, Len(e)) } :
                    e \in ExtLists } :
            n \in 0..MaxDirs }

\* the <<directory, position>> pairs of the files a walk yields
Slots(w) == UNION { {<<d, k>> : k \in 1..Len(w[d].files)} : d \in 1..Len(w) }

\* the path without the file name
join_root_only(root, file) == <<root>>

\* os.path.join(root, file)
join(root, file) == <<root, file>>

files == walk[dirIdx].files

full_path == join(walk[dirIdx].root, files[fileIdx])

----------------------------------------------------------------------------
(* main() *)

NoError == [path |-> <<>>, text |-> "none"]

NotLoaded == [path |-> <<>>, raised |-> FALSE, error |-> "none", windows |-> "none"]

\* main: parsed_docs, the value parse_txt_file returned last
parsed_docs == parse_txt_file(loaded)

FnIdle == arg_docs = <<>> /\ arg_n = 0 /\ ret = <<>> /\ stack = <<>>

Init ==
    /\ pc = "get_bedrock_client"
    /\ walk \in Walks
    /\ bedrock_client = "unset"
    /\ auth = "unset"
    /\ successful_files = <<>>
    /\ failed_files = <<>>
    /\ dirIdx = 0
    /\ fileIdx = 0
    /\ loaded = NotLoaded
    /\ i = 0
    /\ parse_log = <<>>
    /\ sink_log = <<>>
    /\ caught_error = NoError
    /\ FnIdle

\* lines 148-150
GetBedrockClient ==
    /\ pc = "get_bedrock_client"
    /\ \E r \in {"client", "None"} :
          /\ bedrock_client' = r
          /\ pc' = IF r = "None" THEN "done" ELSE "get_auth"
    /\ UNCHANGED <<walk, auth, successful_files, failed_files, dirIdx, fileIdx,
                   loaded, i, parse_log, sink_log, caught_error,
                   arg_docs, arg_n, ret, stack>>

\* lines 152-158
GetAuth ==
    /\ pc = "get_auth"
    /\ \E r \in {"auth", "None"} : auth' = r
    /\ successful_files' = <<>>
    /\ failed_files' = <<>>
    /\ pc' = "walk"
    /\ UNCHANGED <<walk, bedrock_client, dirIdx, fileIdx,
                   loaded, i, parse_log, sink_log, caught_error,
                   arg_docs, arg_n, ret, stack>>

\* line 160: the outer for takes the next directory, or ends
WalkNext ==
    /\ pc = "walk"
    /\ IF dirIdx < Len(walk)
       THEN /\ dirIdx' = dirIdx + 1
            /\ fileIdx' = 0
            /\ pc' = "files"
       ELSE /\ pc' = "report"
            /\ UNCHANGED <<dirIdx, fileIdx>>
    /\ UNCHANGED <<walk, bedrock_client, auth, successful_files, failed_files,
                   loaded, i, parse_log, sink_log, caught_error,
                   arg_docs, arg_n, ret, stack>>

\* lines 161-164: the inner for takes the next file, or ends
FileNext ==
    /\ pc = "files"
    /\ IF fileIdx < Len(files)
       THEN /\ fileIdx' = fileIdx + 1
            /\ pc' = IF endswith_txt(files[fileIdx + 1]) THEN "parse" ELSE "files"
       ELSE /\ pc' = "walk"
            /\ UNCHANGED fileIdx
    /\ UNCHANGED <<walk, bedrock_client, auth, successful_files, failed_files,
                   dirIdx, loaded, i, parse_log, sink_log, caught_error,
                   arg_docs, arg_n, ret, stack>>

\* the except clause without the append
record_failure_lost(failed, path, reason) == failed

\* line 180: failed_files.append((full_path, str(e)))
record_failure(failed, path, reason) == Append(failed, <<path, reason>>)

\* lines 166-167 and 177-181
ParseTxtFile ==
    /\ pc = "parse"
    /\ \E outcome \in LoaderOutcomes(full_path) :
          \E docs \in {parse_txt_file(outcome)} :
          /\ loaded' = outcome
          /\ parse_log' = Append(parse_log, [path |-> full_path, nfrags |-> Len(docs)])
          /\ caught_error' = IF outcome.raised
                             THEN [path |-> full_path, text |-> outcome.error]
                             ELSE caught_error
          /\ IF docs # <<>>
             THEN /\ pc' = "batch"
                  /\ i' = 0
                  /\ UNCHANGED failed_files
             ELSE \* line 178 raises, line 179 catches
                  /\ failed_files' = record_failure(failed_files, full_path, "No documents parsed")
                  /\ pc' = "files"
                  /\ UNCHANGED i
    /\ UNCHANGED <<walk, bedrock_client, auth, successful_files,
                   dirIdx, fileIdx, sink_log, arg_docs, arg_n, ret, stack>>

\* What OpenSearchVectorSearch.from_documents does: returns a store or raises
SinkOutcomes == {"store"} \cup Errors

\* create_opensearch_vector_index handing back the error instead of None
create_opensearch_vector_index_truthy(outcome) == outcome

\* create_opensearch_vector_index, given what from_documents does
create_opensearch_vector_index(outcome) ==
    IF outcome \in Errors THEN "None" ELSE outcome

\* line 172 testing for False instead of falsiness
store_missing_is_false(opensearch_vector_store) == opensearch_vector_store = "False"

\* line 172: not opensearch_vector_store
store_missing(opensearch_vector_store) == opensearch_vector_store = "None"

\* the message numbering the batches from 1
BatchFailure_one_based(k) == "Failed to create vector store for batch " \o ToString(k + 1)

\* str(Exception(f"Failed to create vector store for batch {i}"))
BatchFailure(k) == "Failed to create vector store for batch " \o ToString(k)

\* line 176 leaving both for loops
after_success_ends_walk == "report"

\* line 176 missing: the inner for goes on with the next file
after_success_next_file == "files"

\* line 176: the break leaves the inner for, the outer for goes on
after_success == "walk"

\* the longest page_content of a batch
longest(doc_batch) ==
    LET lens == {Len(doc_batch[k].page_content) : k \in 1..Len(doc_batch)}
    IN  IF lens = {} THEN 0 ELSE CHOOSE m \in lens : \A l \in lens : l <= m

\* lines 168-176 and 179-181: one turn of the batch loop
SubmitBatch ==
    /\ pc = "batch"
    /\ \E batches \in {chunked(parsed_docs, BatchSize)} :
       \E doc_batch \in {batches[i + 1]} :
       \E r \in SinkOutcomes :
          LET opensearch_vector_store == create_opensearch_vector_index(r) IN
          /\ sink_log' = Append(sink_log,
                 [path |-> full_path, batch |-> i, size |-> Len(doc_batch),
                  longest |-> longest(doc_batch), ok |-> (r = "store")])
          /\ caught_error' = IF r \in Errors
                             THEN [path |-> full_path, text |-> r]
                             ELSE caught_error
          /\ IF store_missing(opensearch_vector_store)
             THEN \* line 173 raises, line 179 catches
                  /\ failed_files' = record_failure(failed_files, full_path, BatchFailure(i))
                  /\ pc' = "files"
                  /\ UNCHANGED <<i, successful_files>>
             ELSE IF i + 1 < Len(batches)
             THEN /\ i' = i + 1
                  /\ UNCHANGED <<pc, successful_files, failed_files>>
             ELSE \* lines 174-176: the break leaves the inner for
                  /\ successful_files' = Append(successful_files, full_path)
                  /\ pc' = after_success
                  /\ UNCHANGED <<i, failed_files>>
    /\ UNCHANGED <<walk, bedrock_client, auth, dirIdx, fileIdx, loaded,
                   parse_log, arg_docs, arg_n, ret, stack>>

\* lines 183-189
Report ==
    /\ pc = "report"
    /\ pc' = "done"
    /\ UNCHANGED <<mainVars, arg_docs, arg_n, ret, stack>>

Next ==
    \/ GetBedrockClient
    \/ GetAuth
    \/ WalkNext
    \/ FileNext
    \/ ParseTxtFile
    \/ SubmitBatch
    \/ Report

Spec == Init /\ [][Next]_vars

----------------------------------------------------------------------------
(* recursive_split and chunked on their own *)

MainIdle ==
    /\ walk = <<>>
    /\ bedrock_client = "unset"
    /\ auth = "unset"
    /\ successful_files = <<>>
    /\ failed_files = <<>>
    /\ dirIdx = 0
    /\ fileIdx = 0
    /\ loaded = NotLoaded
    /\ i = 0
    /\ parse_log = <<>>
    /\ sink_log = <<>>
    /\ caught_error = NoError

Chars == {"a", "b"}

Metas == {"m1", "m2"}

Contents == UNION {[1..n -> Chars] : n \in 0..MaxLen}

\* every list of at most MaxDocs documents holding at most MaxLen characters
SplitInputs ==
    UNION { UNION { { [d \in 1..n |->
                        Document(Slice(e, IF d = 1 THEN 0 ELSE c[d - 1], c[d]), m[d])] :
                      c \in Cuts(n, Len(e)), m \in [1..n -> Metas] } :
                    e \in Contents } :
            n \in 0..MaxDocs }

\* one window of 20000 characters
ExampleInput == <<Document(Text(20000), "m1")>>

InitSplit ==
    /\ pc = "split_call"
    /\ \/ arg_docs \in SplitInputs /\ arg_n \in 1..MaxTokens
       \/ arg_docs = ExampleInput /\ arg_n = DefaultMaxTokens
    /\ ret = <<>>
    /\ stack = <<>>
    /\ MainIdle

CallRecursiveSplit ==
    /\ pc = "split_call"
    /\ ret' = recursive_split(arg_docs, arg_n)
    /\ pc' = "split_done"
    /\ UNCHANGED <<mainVars, arg_docs, arg_n, stack>>

NextSplit == CallRecursiveSplit

SpecSplit == InitSplit /\ [][NextSplit]_vars

Fragments == {Document(<<ch>>, "m1") : ch \in Chars}

ChunkInputs == UNION {[1..k -> Fragments] : k \in 0..MaxK}

InitChunk ==
    /\ pc = "chunk_call"
    /\ arg_docs \in ChunkInputs
    /\ arg_n \in 1..MaxN
    /\ ret = <<>>
    /\ stack = <<>>
    /\ MainIdle

\* list(chunked(iterable, n)): the generator run to its end
CallChunked ==
    /\ pc = "chunk_call"
    /\ ret' = chunked(arg_docs, arg_n)
    /\ pc' = "chunk_done"
    /\ UNCHANGED <<mainVars, arg_docs, arg_n, stack>>

NextChunk == CallChunked

SpecChunk == InitChunk /\ [][NextChunk]_vars

\* a call of recursive_split: its argument, the position of its for loop and
\* its result so far
Frame(docs) == [docs |-> docs, k |-> 1, result |-> <<>>]

\* the split point taken at the end of the content
mid_at_end(doc) == Len(doc.page_content)

\* line 112
mid(doc) == Len(doc.page_content) \div 2

InitRec ==
    /\ pc = "rec_run"
    /\ arg_docs \in SplitInputs
    /\ arg_n \in 1..MaxTokens
    /\ ret = <<>>
    /\ stack = <<Frame(arg_docs)>>
    /\ MainIdle

top == stack[Len(stack)]

\* lines 110-111 and 116-117: the document fits and is appended
RecAppend ==
    /\ pc = "rec_run"
    /\ top.k <= Len(top.docs)
    /\ LET doc == top.docs[top.k] IN
          /\ ~(Len(doc.page_content) > arg_n)
          /\ stack' = [stack EXCEPT ![Len(stack)] =
                           [@ EXCEPT !.result = Append(@, doc), !.k = @ + 1]]
    /\ UNCHANGED <<pc, mainVars, arg_docs, arg_n, ret>>

\* lines 110-115: the document is too long, its halves are passed to a new call
RecCall ==
    /\ pc = "rec_run"
    /\ Len(stack) < MaxDepth
    /\ top.k <= Len(top.docs)
    /\ LET doc == top.docs[top.k]
           left == Document(Slice(doc.page_content, 0, mid(doc)), doc.metadata)
           right == Document(SliceFrom(doc.page_content, mid(doc)), doc.metadata)
       IN  /\ Len(doc.page_content) > arg_n
           /\ stack' = Append(stack, Frame(<<left, right>>))
    /\ UNCHANGED <<pc, mainVars, arg_docs, arg_n, ret>>

\* line 118, and line 115 in the caller: the call returns its result, which
\* the caller adds to its own
RecReturn ==
    /\ pc = "rec_run"
    /\ top.k > Len(top.docs)
    /\ IF Len(stack) = 1
       THEN /\ ret' = top.result
            /\ stack' = <<>>
            /\ pc' = "rec_done"
       ELSE /\ stack' = [SubSeq(stack, 1, Len(stack) - 1) EXCEPT ![Len(stack) - 1] =
                             [@ EXCEPT !.result = @ \o top.result, !.k = @ + 1]]
            /\ UNCHANGED <<pc, ret>>
    /\ UNCHANGED <<mainVars, arg_docs, arg_n>>

NextRec == RecAppend \/ RecCall \/ RecReturn

\* the interpreter always takes the next step of a running call
SpecRec == InitRec /\ [][NextRec]_vars /\ WF_vars(NextRec)

----------------------------------------------------------------------------
(* Properties of the ingestion run (Spec) *)

\* the .txt files the walk discovers, as <<directory, position>> pairs
TxtSlots == {sl \in Slots(walk) : endswith_txt(walk[sl[1]].files[sl[2]])}

PathOf(sl) == join(walk[sl[1]].root, walk[sl[1]].files[sl[2]])

TxtPaths == {PathOf(sl) : sl \in TxtSlots}

\* sl comes before tl in the iteration order of the two for loops
Before(sl, tl) == sl[1] < tl[1] \/ (sl[1] = tl[1] /\ sl[2] < tl[2])

SuccessPaths == {successful_files[k] : k \in 1..Len(successful_files)}

FailurePaths == {failed_files[k][1] : k \in 1..Len(failed_files)}

ParsedPaths == {parse_log[k].path : k \in 1..Len(parse_log)}

SubmittedPaths == {sink_log[k].path : k \in 1..Len(sink_log)}

\* how many outcome records the file has, over both lists
NumRecords(p) ==
    Cardinality({k \in 1..Len(successful_files) : successful_files[k] = p})
    + Cardinality({k \in 1..Len(failed_files) : failed_files[k][1] = p})

NumFailures(p) == Cardinality({k \in 1..Len(failed_files) : failed_files[k][1] = p})

RunEnded == pc = "done" /\ bedrock_client = "client"

\* C1: when a run that got past client construction ends, the outcome records
\* are as many as the .txt files discovered, one record for each file.
C1_OneRecordPerDiscoveredFile ==
    RunEnded =>
        /\ Len(successful_files) + Len(failed_files) = Cardinality(TxtPaths)
        /\ \A p \in TxtPaths : NumRecords(p) = 1

\* C2: once the sink failed on batch i of a document, no later batch of that
\* document is submitted, the document has exactly one Failure record and is
\* not in the successful list.
C2_SinkFailureEndsDocument ==
    \A k \in 1..Len(sink_log) :
        ~sink_log[k].ok =>
            /\ \A j \in 1..Len(sink_log) :
                   sink_log[j].path = sink_log[k].path =>
                       j <= k /\ sink_log[j].batch <= sink_log[k].batch
            /\ NumFailures(sink_log[k].path) = 1
            /\ sink_log[k].path \notin SuccessPaths

\* the sink failed on the second of three batches and the run went on to its end
C2_Witness ==
    /\ RunEnded
    /\ \E k \in 1..Len(sink_log) :
          /\ ~sink_log[k].ok
          /\ sink_log[k].batch = 1
          /\ \E q \in 1..Len(parse_log) :
                /\ parse_log[q].path = sink_log[k].path
                /\ parse_log[q].nfrags > 2 * BatchSize

RECURSIVE SubmittedFragments(_, _)
\* how many fragments of the file the first k sink calls accepted
SubmittedFragments(p, k) ==
    IF k = 0 THEN 0
    ELSE SubmittedFragments(p, k - 1)
         + (IF sink_log[k].path = p /\ sink_log[k].ok THEN sink_log[k].size ELSE 0)

\* C3: a document recorded as Success had a non-empty fragment sequence, and
\* all of its fragments were submitted, in batches the sink accepted; none of
\* its batches was rejected.
C3_SuccessMeansFullyIndexed ==
    \A p \in SuccessPaths :
        /\ \E q \in 1..Len(parse_log) :
              /\ parse_log[q].path = p
              /\ parse_log[q].nfrags > 0
              /\ SubmittedFragments(p, Len(sink_log)) = parse_log[q].nfrags
        /\ \A k \in 1..Len(sink_log) : sink_log[k].path = p => sink_log[k].ok
        /\ p \notin FailurePaths

\* a document of several batches was recorded as Success
C3_Witness ==
    \E p \in SuccessPaths :
        Cardinality({k \in 1..Len(sink_log) : sink_log[k].path = p}) = 3

\* the documents that have a cause of failure: nothing parsed, or a batch rejected
FailureCauses ==
    {parse_log[k].path : k \in {q \in 1..Len(parse_log) : parse_log[q].nfrags = 0}}
    \cup {sink_log[k].path : k \in {q \in 1..Len(sink_log) : ~sink_log[q].ok}}

\* C4: a per-document failure gives a Failure record to that document and to
\* no other, and the run goes on: when it ends, the .txt file that follows a
\* failed one in iteration order was parsed.
C4_FailureIsLocal ==
    /\ FailurePaths = FailureCauses
    /\ \A p \in FailurePaths : NumFailures(p) = 1
    /\ RunEnded =>
          \A sl \in TxtSlots : \A tl \in TxtSlots :
              ( /\ PathOf(sl) \in FailurePaths
                /\ Before(sl, tl)
                /\ ~\E ul \in TxtSlots : Before(sl, ul) /\ Before(ul, tl) )
              => PathOf(tl) \in ParsedPaths

\* both kinds of failure happened, each followed by a file that was processed
C4_Witness ==
    /\ RunEnded
    /\ \E sl \in TxtSlots : \E tl \in TxtSlots : \E ul \in TxtSlots :
          /\ Before(sl, tl) /\ Before(tl, ul)
          /\ \E k \in 1..Len(parse_log) :
                parse_log[k].path = PathOf(sl) /\ parse_log[k].nfrags = 0
          /\ \E k \in 1..Len(sink_log) :
                sink_log[k].path = PathOf(tl) /\ ~sink_log[k].ok
          /\ PathOf(ul) \in ParsedPaths

\* C5: every .txt file the walk discovers is parsed before the run ends,
\* whatever the outcomes of the files before it.
C5_EveryDiscoveredFileParsed ==
    RunEnded => \A p \in TxtPaths : p \in ParsedPaths

\* C9: if get_bedrock_client or get_auth returned None, no file is parsed, no
\* batch is submitted and no outcome record is produced.
C9_ClientOrAuthFailureAborts ==
    (bedrock_client = "None" \/ auth = "None") =>
        /\ parse_log = <<>>
        /\ sink_log = <<>>
        /\ successful_files = <<>>
        /\ failed_files = <<>>

\* C10 as stated: the reason of a Failure record is the text of the error the
\* load, the split or the sink raised for that document.
C10_ReasonIsErrorText ==
    \A k \in 1..Len(failed_files) :
        failed_files[k][1] = caught_error.path =>
            failed_files[k][2] = caught_error.text

\* C10 amended: the reason of a Failure record is the message of the exception
\* main raises itself: "No documents parsed" when parse_txt_file returned
\* nothing, and the batch message with the 0-based index of the rejected batch
\* when the sink returned None; it is never the text of the underlying error.
C10_ReasonIsBoundaryMessage ==
    \A k \in 1..Len(failed_files) :
        LET p == failed_files[k][1]
            reason == failed_files[k][2]
        IN  /\ reason \notin Errors
            /\ \A q \in 1..Len(parse_log) :
                   (parse_log[q].path = p /\ parse_log[q].nfrags = 0)
                       => reason = "No documents parsed"
            /\ \A q \in 1..Len(sink_log) :
                   (sink_log[q].path = p /\ ~sink_log[q].ok)
                       => reason = "Failed to create vector store for batch "
                                   \o ToString(sink_log[q].batch)

\* the sink raised on the second batch of one document, and then the load of
\* another document raised
C10_Witness ==
    /\ \E k \in 1..Len(failed_files) :
          /\ failed_files[k][1] = caught_error.path
          /\ caught_error.text \in Errors
          /\ failed_files[k][2] = "No documents parsed"
    /\ \E k \in 1..Len(failed_files) : \E q \in 1..Len(sink_log) :
          /\ sink_log[q].path = failed_files[k][1]
          /\ ~sink_log[q].ok
          /\ sink_log[q].batch = 1

\* the documents parse_txt_file returned nothing for
EmptyParses ==
    {parse_log[k].path : k \in {q \in 1..Len(parse_log) : parse_log[q].nfrags = 0}}

\* C11: a document that yields zero fragments has a Failure record, is not in
\* the successful list, and the sink is never called for it.
C11_EmptyResultIsFailure ==
    \A p \in EmptyParses :
        /\ NumFailures(p) = 1
        /\ p \notin SuccessPaths
        /\ p \notin SubmittedPaths

\* two documents yielded nothing, the later of them because its load raised,
\* and the run ended
C11_Witness ==
    /\ RunEnded
    /\ Cardinality(EmptyParses) >= 2
    /\ caught_error.path \in EmptyParses
    /\ \E p \in EmptyParses : p # caught_error.path

\* the .txt files of directory d, as <<directory, position>> pairs
TxtSlotsOf(d) == {sl \in TxtSlots : sl[1] = d}

\* C12 as stated: of the matching files of one inner scan, at most one is
\* parsed or submitted to the sink.
C12_AtMostOneProcessedPerScan ==
    \A d \in 1..Len(walk) :
        Cardinality({sl \in TxtSlotsOf(d) :
                        PathOf(sl) \in ParsedPaths \cup SubmittedPaths}) <= 1

\* C12 amended: of the matching files of one inner scan, at most one is
\* processed with success; a matching file is parsed or submitted only if
\* every matching file before it in the scan was processed and failed.
C12_AtMostOneSuccessPerScan ==
    \A d \in 1..Len(walk) :
        /\ Cardinality({sl \in TxtSlotsOf(d) : PathOf(sl) \in SuccessPaths}) <= 1
        /\ \A sl \in TxtSlotsOf(d) :
               PathOf(sl) \in ParsedPaths \cup SubmittedPaths =>
                   \A tl \in TxtSlotsOf(d) :
                       Before(tl, sl) =>
                           /\ PathOf(tl) \in ParsedPaths
                           /\ PathOf(tl) \in FailurePaths

\* a scan of three matching files: the first failed, the second succeeded,
\* the third was left alone
C12_Witness ==
    /\ RunEnded
    /\ \E d \in 1..Len(walk) :
          \E sl \in TxtSlotsOf(d) : \E tl \in TxtSlotsOf(d) : \E ul \in TxtSlotsOf(d) :
              /\ Before(sl, tl) /\ Before(tl, ul)
              /\ PathOf(sl) \in FailurePaths
              /\ PathOf(tl) \in SuccessPaths
              /\ PathOf(ul) \notin ParsedPaths

\* the documents that reached their terminal outcome
Recorded == SuccessPaths \cup FailurePaths

\* C15: the sink calls of a document are consecutive, start at batch 0 and go
\* up by one, each after the call before it was accepted; no batch is
\* submitted twice; a document's first batch is submitted only after the
\* document submitted before it has its outcome record.
C15_BatchesSequentialNoRetry ==
    \A k \in 1..Len(sink_log) :
        /\ \A j \in 1..(k - 1) :
               ~(sink_log[j].path = sink_log[k].path /\ sink_log[j].batch = sink_log[k].batch)
        /\ IF k > 1 /\ sink_log[k - 1].path = sink_log[k].path
           THEN /\ sink_log[k].batch = sink_log[k - 1].batch + 1
                /\ sink_log[k - 1].ok
           ELSE /\ sink_log[k].batch = 0
                /\ \A j \in 1..(k - 1) :
                       /\ sink_log[j].path # sink_log[k].path
                       /\ sink_log[j].path \in Recorded

\* three batches of one document were accepted one after the other, then a
\* batch of another document was rejected
C15_Witness ==
    \E k \in 4..Len(sink_log) :
        /\ sink_log[k - 1].batch = 2
        /\ sink_log[k - 1].ok
        /\ sink_log[k].path # sink_log[k - 1].path
        /\ ~sink_log[k].ok

\* C17: every batch submitted to the sink has at least one and at most 100
\* fragments, and none of its fragments is longer than 7500 characters.
C17_BatchesBounded ==
    \A k \in 1..Len(sink_log) :
        /\ sink_log[k].size >= 1
        /\ sink_log[k].size <= BatchSize
        /\ sink_log[k].longest <= DefaultMaxTokens

\* a full batch holding the halves of an over-long window, and a shorter last batch
C17_Witness ==
    /\ \E k \in 1..Len(sink_log) :
          /\ sink_log[k].size = BatchSize
          /\ sink_log[k].longest > 1
    /\ \E k \in 1..Len(sink_log) :
          /\ sink_log[k].batch = 2
          /\ sink_log[k].size < BatchSize

\* C18: no file is in both lists, and no file is recorded twice.
C18_ListsDisjointNoDuplicates ==
    /\ SuccessPaths \cap FailurePaths = {}
    /\ \A p \in Recorded : NumRecords(p) = 1

\* both lists are in use and one of them holds two files
C18_Witness ==
    /\ Len(successful_files) >= 1
    /\ Len(failed_files) >= 2

\* C19: per directory at most one file is recorded as Success; the .txt files
\* before it in the directory have a Failure record; the .txt files after it
\* are not parsed, not submitted and have no record; and the scan of a
\* directory does not depend on the other directories: when the run ends, a
\* .txt file was parsed exactly if no .txt file before it in its own
\* directory succeeded.
C19_ScanStopsAtFirstSuccess ==
    /\ \A d \in 1..Len(walk) :
          Cardinality({sl \in TxtSlotsOf(d) : PathOf(sl) \in SuccessPaths}) <= 1
    /\ \A sl \in TxtSlots :
          PathOf(sl) \in SuccessPaths =>
              \A tl \in TxtSlotsOf(sl[1]) :
                  /\ Before(tl, sl) => NumFailures(PathOf(tl)) = 1
                  /\ Before(sl, tl) =>
                         /\ PathOf(tl) \notin ParsedPaths
                         /\ PathOf(tl) \notin SubmittedPaths
                         /\ PathOf(tl) \notin Recorded
    /\ RunEnded =>
          \A tl \in TxtSlots :
              PathOf(tl) \in ParsedPaths <=>
                  ~\E sl \in TxtSlotsOf(tl[1]) :
                      Before(sl, tl) /\ PathOf(sl) \in SuccessPaths

\* the first directory's scan stopped at a success with a file left over,
\* and the file of the second directory was processed all the same
C19_Witness ==
    /\ RunEnded
    /\ Len(walk) = 2
    /\ \E sl \in TxtSlotsOf(1) : \E tl \in TxtSlotsOf(1) :
          /\ Before(sl, tl)
          /\ PathOf(sl) \in SuccessPaths
          /\ PathOf(tl) \notin ParsedPaths
    /\ \E ul \in TxtSlotsOf(2) : PathOf(ul) \in Recorded

----------------------------------------------------------------------------
(* Properties of recursive_split (SpecSplit) and of chunked (SpecChunk) *)

\* C6: every fragment recursive_split returns has at most max_tokens characters.
C6_FragmentsWithinMaxLength ==
    pc = "split_done" =>
        \A k \in 1..Len(ret) : Len(ret[k].page_content) <= arg_n

\* a window more than twice as long as max_tokens was split
C6_Witness ==
    /\ pc = "split_done"
    /\ \E d \in 1..Len(arg_docs) : Len(arg_docs[d].page_content) > 2 * arg_n

RECURSIVE JoinContents(_, _, _)
\* the contents of fragments lo..hi, one after the other
JoinContents(frags, lo, hi) ==
    IF lo > hi THEN <<>>
    ELSE frags[lo].page_content \o JoinContents(frags, lo + 1, hi)

\* the ways to cut k fragments into n non-empty consecutive groups:
\* group d ends at fragment c[d]
GroupEnds(n, k) ==
    { c \in [1..n -> 1..k] :
        /\ \A d \in 1..(n - 1) : c[d] < c[d + 1]
        /\ n > 0 => c[n] = k }

\* C7: the fragments fall into consecutive groups, one per window and in the
\* windows' order; the contents of a group, joined in order, are the window's
\* content, and every fragment of the group has the window's metadata.
C7_SplitIsPartition ==
    pc = "split_done" =>
        /\ arg_docs = <<>> => ret = <<>>
        /\ \E c \in GroupEnds(Len(arg_docs), Len(ret)) :
              \A d \in 1..Len(arg_docs) :
                  LET lo == IF d = 1 THEN 1 ELSE c[d - 1] + 1 IN
                  /\ JoinContents(ret, lo, c[d]) = arg_docs[d].page_content
                  /\ \A k \in lo..c[d] : ret[k].metadata = arg_docs[d].metadata

\* two windows of different metadata, the second one split more than once
C7_Witness ==
    /\ pc = "split_done"
    /\ Len(arg_docs) = 2
    /\ arg_docs[1].metadata # arg_docs[2].metadata
    /\ arg_docs[2].page_content = <<"a", "b", "b">>
    /\ Len(ret) = 4

RECURSIVE JoinBatches(_, _)
\* the first k batches, one after the other
JoinBatches(batches, k) ==
    IF k = 0 THEN <<>> ELSE JoinBatches(batches, k - 1) \o batches[k]

\* C8: chunked yields ceil(K/N) batches, all but the last of N fragments, the
\* last of K mod N fragments if that is not zero and of N otherwise, and the
\* batches joined in order are the sequence.
C8_ChunkedBatches ==
    pc = "chunk_done" =>
        LET K == Len(arg_docs)
            N == arg_n
        IN  /\ Len(ret) = (K + N - 1) \div N
            /\ \A k \in 1..(Len(ret) - 1) : Len(ret[k]) = N
            /\ Len(ret) > 0 =>
                   Len(ret[Len(ret)]) = (IF K % N # 0 THEN K % N ELSE N)
            /\ JoinBatches(ret, Len(ret)) = arg_docs

\* a sequence that fills two batches and leaves a shorter third one
C8_Witness ==
    /\ pc = "chunk_done"
    /\ Len(arg_docs) = 5
    /\ arg_n = 2
    /\ Len(ret) = 3

\* C14 as stated: a sequence of at most n fragments gives exactly one batch,
\* the whole sequence.
C14_SingleBatch ==
    (pc = "chunk_done" /\ Len(arg_docs) <= arg_n) => ret = <<arg_docs>>

\* C14 amended: a non-empty sequence of at most n fragments gives exactly one
\* batch, the whole sequence; the empty sequence gives no batch.
C14_SingleBatchUnlessEmpty ==
    (pc = "chunk_done" /\ Len(arg_docs) <= arg_n) =>
        IF arg_docs = <<>> THEN ret = <<>> ELSE ret = <<arg_docs>>

\* a sequence of exactly n fragments, n > 1, came back as one batch
C14_Witness ==
    /\ pc = "chunk_done"
    /\ arg_n > 1
    /\ Len(arg_docs) = arg_n
    /\ Len(ret) = 1

RECURSIVE BisectedLengths(_, _)
\* the fragment lengths the bisection rule gives for a window of length l
BisectedLengths(l, max_length) ==
    IF l > max_length
    THEN BisectedLengths(l \div 2, max_length)
         \o BisectedLengths(l - (l \div 2), max_length)
    ELSE <<l>>

RECURSIVE AllBisectedLengths(_, _, _)
\* the same for the first k windows of a list
AllBisectedLengths(docs, k, max_length) ==
    IF k = 0 THEN <<>>
    ELSE AllBisectedLengths(docs, k - 1, max_length)
         \o BisectedLengths(Len(docs[k].page_content), max_length)

\* C16: a window of length L > max_length is cut into a left part of
\* floor(L/2) and a right part of L - floor(L/2) characters, each cut again
\* by the same rule; one 20000-character window with max_length 7500 gives
\* four fragments of 5000 characters.
C16_BisectsAtMidpoint ==
    pc = "split_done" =>
        LET lengths == [k \in 1..Len(ret) |-> Len(ret[k].page_content)] IN
        /\ lengths = AllBisectedLengths(arg_docs, Len(arg_docs), arg_n)
        /\ (arg_docs = ExampleInput /\ arg_n = 7500) =>
               lengths = <<5000, 5000, 5000, 5000>>

\* the 20000-character window was split
C16_Witness ==
    /\ pc = "split_done"
    /\ arg_docs = ExampleInput
    /\ arg_n = 7500
    /\ Len(ret) = 4

----------------------------------------------------------------------------
(* Properties of the calls of recursive_split (SpecRec) *)

\* every call but the outermost got the two halves of the document its caller
\* is at, both shorter than that document, which has more than one character
HalvesShorter ==
    \A f \in 2..Len(stack) :
        LET parent == stack[f - 1].docs[stack[f - 1].k] IN
        /\ Len(parent.page_content) > 1
        /\ Len(stack[f].docs) = 2
        /\ \A j \in 1..2 :
               Len(stack[f].docs[j].page_content) < Len(parent.page_content)

\* C13: recursive_split terminates: every recursive call is on halves
\* strictly shorter than their parent, a fragment of length 1 is never split,
\* and the outermost call returns.
C13_SplitTerminates ==
    /\ [](pc = "rec_run" => HalvesShorter)
    /\ <>(pc = "rec_done")

\* the outermost call returned after calls nested two deep
C13_Witness ==
    /\ pc = "rec_done"
    /\ \E d \in 1..Len(arg_docs) : Len(arg_docs[d].page_content) > 2 * arg_n
    /\ Len(ret) > Len(arg_docs) + 1

\* the calls give what recursive_split gives
RecAgrees == pc = "rec_done" => ret = recursive_split(arg_docs, arg_n)

====
